---- MODULE Spec2Model ----
(***************************************************************************)
(* State machine of the App component (src/App.tsx): the seven React state *)
(* cells, the PDF ingestion started by handleFileUpload and the reply      *)
(* stream started by handleSendMessage.  Every await of the two async      *)
(* functions is a suspension point: the code between two awaits is one     *)
(* atomic action, and any other event handler may run in between.          *)
(*                                                                         *)
(* Text is a sequence of string tokens; '+' on JavaScript strings is \o.   *)
(* An event handler is enabled unless the element that carries it has a    *)
(* disabled attribute: the file input (170-176) and the form (244) have    *)
(* none, the text input (245-252) is disabled by line 250.  The upload     *)
(* button (185-188) is disabled while processing, but it only opens the    *)
(* file dialog; handleFileUpload itself runs on the input's change event.  *)
(***************************************************************************)
EXTENDS Naturals, Sequences, FiniteSets

\* ---------------------------------------------------------------- bounds
MaxUploads == 2     \* accepted uploads in one behaviour
MaxSends == 2       \* accepted sends in one behaviour
MaxOps == 4         \* accepted uploads and accepted sends in one behaviour
MaxFrags == 2       \* fragments of the longest reply stream

\* ------------------------------------------------------------- constants
Null == "null"
PdfType == "application/pdf"
InvalidFileMsg == "Por favor, selecciona un archivo PDF valido."
ReadFailMsg == "No se pudo leer el archivo."
ProcessFailMsg == "Ocurrio un error al procesar el PDF. Intentalo de nuevo."
initialBotMessage == <<"Documento analizado. Ya puedes hacer preguntas sobre su contenido.">>
CommFailMsg == <<"Lo siento, un error de comunicacion me impidio responder.">>
PromptPrefix == <<"Basandote EXCLUSIVAMENTE en el siguiente texto, ... El texto es:\n\n---\n\n">>
USER == "user"
BOT == "bot"

ChatMessage(sender, text) == [sender |-> sender, text |-> text]

NoChat == [gen |-> 0, history |-> <<>>]

\* ----------------------------------------------------------------- inputs
NoFile == [name |-> "", type |-> "none", pages |-> <<>>]
PageWords == <<"uno", "dos", "tres", "cuatro">>
FileNames == <<"A.pdf", "B.pdf", "C.pdf", "D.pdf">>
\* textContent.items of page i: page 1 has two items, the others one
PageItems(i) == IF i = 1 THEN <<[str |-> "uno"], [str |-> "y"]>>
                         ELSE <<[str |-> PageWords[i]]>>
\* the n-th PDF the user has at hand: n pages, its own name
PdfFile(n) == [name |-> FileNames[n], type |-> PdfType,
               pages |-> [i \in 1..n |-> PageItems(i)]]
TextFile == [name |-> "notas.txt", type |-> "text/plain", pages |-> <<>>]
Files == {PdfFile(n) : n \in 1..MaxUploads} \cup {TextFile, NoFile}

\* what the user can type: nothing, whitespace only, text after a space
Inputs == {<<>>, <<" ">>, <<" ", "q">>}

\* chunk.text of the k-th fragment of a reply
Fragments == <<"Hola", ", ", "mundo", "!">>

\* ------------------------------------------------------------ pure helpers
IsSpace(c) == c \in {" ", "\t", "\n"}

RECURSIVE TrimStart(_)
TrimStart(s) == IF s = <<>> THEN <<>>
                ELSE IF IsSpace(Head(s)) THEN TrimStart(Tail(s)) ELSE s

RECURSIVE TrimEnd(_)
TrimEnd(s) == IF s = <<>> THEN <<>>
              ELSE IF IsSpace(s[Len(s)]) THEN TrimEnd(SubSeq(s, 1, Len(s) - 1)) ELSE s

\* String.prototype.trim
Trim(s) == TrimEnd(TrimStart(s))

\* items.map(item => item.str).join(' ')
RECURSIVE JoinItems(_)
JoinItems(items) ==
    IF items = <<>> THEN <<>>
    ELSE IF Len(items) = 1 THEN <<items[1].str>>
    ELSE <<items[1].str, " ">> \o JoinItems(Tail(items))

\* fullText += pageText + '\n\n'
AppendPageReversed(fullText, pageText) == pageText \o <<"\n\n">> \o fullText
AppendPage(fullText, pageText) == fullText \o pageText \o <<"\n\n">>

\* ai.chats.create({history: [user prompt with fullText, model acknowledgment]})
CreateChat(g, fullText) ==
    [gen |-> g,
     history |-> << [role |-> "user", text |-> PromptPrefix \o fullText],
                    [role |-> "model", text |-> initialBotMessage] >>]

\* ------------------------------------------------------------------ state
VARIABLES
    pdfName,        \* useState<string | null>, line 50
    isProcessing,   \* line 51
    messages,       \* line 52
    error,          \* line 53
    chat,           \* line 54
    userInput,      \* line 55
    isBotReplying,  \* line 56
    ingestions,     \* one entry per accepted upload: the onload closure's position
    streams,        \* one entry per accepted send: handleSendMessage's position
    crashed         \* a state updater threw during render: the tree is unmounted

ui == <<pdfName, isProcessing, messages, error, chat, userInput, isBotReplying>>
vars == <<pdfName, isProcessing, messages, error, chat, userInput, isBotReplying,
          ingestions, streams, crashed>>

\* the number of the upload whose name is shown; 0 before any upload
curGen == Len(ingestions)

Init ==
    /\ pdfName = Null
    /\ isProcessing = FALSE
    /\ messages = <<>>
    /\ error = Null
    /\ chat = NoChat
    /\ userInput = <<>>
    /\ isBotReplying = FALSE
    /\ ingestions = <<>>
    /\ streams = <<>>
    /\ crashed = FALSE

\* -------------------------------------------------------- handleFileUpload
\* lines 67-75: the values resetState writes
resetStateKeepsReplying ==
    [pdfName |-> Null, isProcessing |-> FALSE, messages |-> <<>>, error |-> Null,
     chat |-> NoChat, userInput |-> <<>>, isBotReplying |-> isBotReplying]
resetStateKeepsMessages ==
    [pdfName |-> Null, isProcessing |-> FALSE, messages |-> messages, error |-> Null,
     chat |-> NoChat, userInput |-> <<>>, isBotReplying |-> FALSE]
resetState ==
    [pdfName |-> Null, isProcessing |-> FALSE, messages |-> <<>>, error |-> Null,
     chat |-> NoChat, userInput |-> <<>>, isBotReplying |-> FALSE]

\* line 78: file && file.type === 'application/pdf'
IsPdfAnyFile(file) == file # NoFile
IsPdf(file) == file # NoFile /\ file.type = PdfType

\* lines 77-86 and 89-90, 129: validation, reset, start of the asynchronous read.
\* new FileReader() and readAsArrayBuffer(file) do not throw for a File, so the
\* catch of lines 130-134 is never entered; a failed read is reported to the
\* reader's error event instead (see FileRead).
\* The uploads of one behaviour are of different PDFs, taken in the order of
\* their names (the change event does not fire when the same file is chosen
\* again).
Upload(file) ==
    /\ ~crashed
    /\ IF ~IsPdf(file)
       THEN /\ error' = InvalidFileMsg
            /\ UNCHANGED <<pdfName, isProcessing, messages, chat, userInput,
                           isBotReplying, ingestions, streams, crashed>>
       ELSE /\ Len(ingestions) < MaxUploads
            /\ Len(ingestions) + Len(streams) < MaxOps
            /\ file.type = PdfType => file = PdfFile(Len(ingestions) + 1)
            /\ LET r == resetState IN
                /\ pdfName' = file.name
                /\ isProcessing' = TRUE
                /\ messages' = r.messages
                /\ error' = Null
                /\ chat' = r.chat
                /\ userInput' = r.userInput
                /\ isBotReplying' = r.isBotReplying
            /\ ingestions' = Append(ingestions,
                   [file |-> file, stage |-> "reading"])
            /\ UNCHANGED <<streams, crashed>>

SetStage(g, stage) == ingestions' = [ingestions EXCEPT ![g].stage = stage]

\* The read settles.  "result": onload with a buffer (line 97, then the await of
\* line 98).  "empty": onload without a result (lines 91-95).  "error": the
\* reader's error event, for which no handler is registered: nothing runs.
FileRead(g, outcome) ==
    /\ ~crashed
    /\ g \in 1..Len(ingestions)
    /\ ingestions[g].stage = "reading"
    /\ CASE outcome = "result" ->
              /\ SetStage(g, "extracting")
              /\ UNCHANGED <<ui, streams, crashed>>
         [] outcome = "empty" ->
              /\ error' = ReadFailMsg
              /\ isProcessing' = FALSE
              /\ SetStage(g, "failed")
              /\ UNCHANGED <<pdfName, messages, chat, userInput, isBotReplying,
                             streams, crashed>>
         [] outcome = "error" ->
              /\ SetStage(g, "failed")
              /\ UNCHANGED <<ui, streams, crashed>>

\* lines 99-106: the loop over the pages, entered with i = 1 and fullText = ''
RECURSIVE ExtractLoop(_, _, _)
ExtractLoop(pages, i, fullText) ==
    IF i > Len(pages) THEN fullText
    ELSE ExtractLoop(pages, i + 1, AppendPage(fullText, JoinItems(pages[i])))

\* lines 108-126: what a successful ingestion writes to messages
IngestedMessagesAppended == Append(messages, ChatMessage(BOT, initialBotMessage))
IngestedMessages == <<ChatMessage(BOT, initialBotMessage)>>

\* lines 98-126: the rest of the onload callback.  Its awaits (getDocument,
\* getPage, getTextContent) separate code that touches only the callback's own
\* locals, so the callback is taken from the settled read to its end in one
\* step.  "ok": every call resolved, lines 108-126 run.  "throw": one of them
\* rejected; the async callback's promise is rejected and nobody handles it
\* (the try of line 88 ended when readAsArrayBuffer returned), nothing runs.
Extract(g, outcome) ==
    /\ ~crashed
    /\ g \in 1..Len(ingestions)
    /\ ingestions[g].stage = "extracting"
    /\ IF outcome = "ok"
       THEN /\ SetStage(g, "installed")
            /\ chat' = CreateChat(g, ExtractLoop(ingestions[g].file.pages, 1, <<>>))
            /\ messages' = IngestedMessages
            /\ isProcessing' = FALSE
            /\ UNCHANGED <<pdfName, error, userInput, isBotReplying, streams, crashed>>
       ELSE /\ SetStage(g, "failed")
            /\ UNCHANGED <<ui, streams, crashed>>

\* ------------------------------------------------------- handleSendMessage
\* line 248, on the text input that line 250 disables
SetInput(v) ==
    /\ ~crashed
    /\ chat # NoChat /\ ~isBotReplying /\ ~isProcessing
    /\ v # userInput
    /\ userInput' = v
    /\ UNCHANGED <<pdfName, isProcessing, messages, error, chat, isBotReplying,
                   ingestions, streams, crashed>>

\* line 139, negated: the send goes ahead
CanSendUntrimmed == userInput # <<>> /\ chat # NoChat /\ ~isBotReplying
CanSend == Trim(userInput) # <<>> /\ chat # NoChat /\ ~isBotReplying

\* lines 137-147, up to the await of sendMessageStream on the captured chat.
\* The entry keeps the closure's chat and message (line 147), the accumulator
\* botReply and the number k of chunks received; bots and session record the
\* BOT messages and the accepted uploads there were when the send was accepted.
Send ==
    /\ ~crashed
    /\ IF ~CanSend
       THEN UNCHANGED <<ui, ingestions, streams, crashed>>
       ELSE /\ Len(streams) < MaxSends
            /\ Len(ingestions) + Len(streams) < MaxOps
            /\ messages' = Append(messages, ChatMessage(USER, userInput))
            /\ userInput' = <<>>
            /\ isBotReplying' = TRUE
            /\ streams' = Append(streams,
                   [chat |-> chat.gen, stage |-> "sending", botReply |-> <<>>, k |-> 0,
                    bots |-> Cardinality({i \in 1..Len(messages) : messages[i].sender = BOT}),
                    message |-> userInput, session |-> curGen])
            /\ UNCHANGED <<pdfName, isProcessing, error, chat, ingestions, crashed>>

\* handleSendMessage has returned: its locals are gone
Settled(job, stage) == [job EXCEPT !.stage = stage, !.botReply = <<>>, !.k = 0]

\* lines 160-165: catch, then finally
CommFailureSilent(s, outcome) ==
    /\ isBotReplying' = FALSE
    /\ streams' = [streams EXCEPT ![s] = Settled(@, "failed")]
    /\ UNCHANGED <<pdfName, isProcessing, messages, error, chat, userInput, ingestions,
                   crashed>>
CommFailure(s, outcome) ==
    /\ messages' = Append(messages, ChatMessage(BOT, CommFailMsg))
    /\ isBotReplying' = FALSE
    /\ streams' = [streams EXCEPT ![s] = Settled(@, "failed")]
    /\ UNCHANGED <<pdfName, isProcessing, error, chat, userInput, ingestions, crashed>>

\* line 147 settles: lines 149-150 and the first await of the loop, or the catch
SendSettled(s, outcome) ==
    /\ ~crashed
    /\ s \in 1..Len(streams)
    /\ streams[s].stage = "sending"
    /\ IF outcome = "ok"
       THEN /\ messages' = Append(messages, ChatMessage(BOT, <<>>))
            /\ streams' = [streams EXCEPT ![s].stage = "streaming"]
            /\ UNCHANGED <<pdfName, isProcessing, error, chat, userInput, isBotReplying,
                           ingestions, crashed>>
       ELSE CommFailure(s, outcome)

\* lines 154-158: the updater of one chunk, applied to the current messages.
\* On an empty array newMessages[-1] is undefined and the assignment throws
\* a TypeError inside the updater, that is during render: the root unmounts.
WriteLast(prev, botReply) == [prev EXCEPT ![Len(prev)].text = botReply]

\* lines 152-159: the stream yields its next chunk
StreamChunk(s) ==
    /\ ~crashed
    /\ s \in 1..Len(streams)
    /\ streams[s].stage = "streaming"
    /\ streams[s].k < MaxFrags
    /\ LET botReply == streams[s].botReply \o <<Fragments[streams[s].k + 1]>> IN
       /\ streams' = [streams EXCEPT ![s].botReply = botReply, ![s].k = @ + 1]
       /\ IF messages = <<>>
          THEN crashed' = TRUE /\ UNCHANGED messages
          ELSE messages' = WriteLast(messages, botReply) /\ UNCHANGED crashed
    /\ UNCHANGED <<pdfName, isProcessing, error, chat, userInput, isBotReplying, ingestions>>

\* the stream ends (lines 159, 163-165) or throws (lines 160-165)
StreamEnd(s, outcome) ==
    /\ ~crashed
    /\ s \in 1..Len(streams)
    /\ streams[s].stage = "streaming"
    /\ IF outcome = "ok"
       THEN /\ isBotReplying' = FALSE
            /\ streams' = [streams EXCEPT ![s] = Settled(@, "done")]
            /\ UNCHANGED <<pdfName, isProcessing, messages, error, chat, userInput,
                           ingestions, crashed>>
       ELSE CommFailure(s, outcome)

\* ---------------------------------------------------------- specification
Next ==
    \/ \E file \in Files : Upload(file)
    \/ \E g \in 1..MaxUploads, o \in {"result", "empty", "error"} : FileRead(g, o)
    \/ \E g \in 1..MaxUploads, o \in {"ok", "throw"} : Extract(g, o)
    \/ \E v \in Inputs : SetInput(v)
    \/ Send
    \/ \E s \in 1..MaxSends, o \in {"ok", "throw"} : SendSettled(s, o)
    \/ \E s \in 1..MaxSends : StreamChunk(s)
    \/ \E s \in 1..MaxSends, o \in {"ok", "throw"} : StreamEnd(s, o)

Spec == Init /\ [][Next]_vars

\* ------------------------------------------------------ vocabulary of the claims
Last(seq) == seq[Len(seq)]

Settling(g) == ingestions[g].stage \in {"reading", "extracting"}
AllSettled == \A g \in 1..Len(ingestions) : ~Settling(g)
Installed(g) == ingestions[g].stage = "installed"
InFlight(s) == streams[s].stage \in {"sending", "streaming"}

BotCount(seq) == Cardinality({i \in 1..Len(seq) : seq[i].sender = BOT})

\* the text of each page, in page order
PageTexts(file) == [i \in 1..Len(file.pages) |-> JoinItems(file.pages[i])]

\* texts joined by sep: sep between consecutive texts only
RECURSIVE JoinedBy(_, _)
JoinedBy(texts, sep) ==
    IF texts = <<>> THEN <<>>
    ELSE IF Len(texts) = 1 THEN texts[1]
    ELSE texts[1] \o sep \o JoinedBy(Tail(texts), sep)

\* texts each followed by sep
RECURSIVE TerminatedBy(_, _)
TerminatedBy(texts, sep) ==
    IF texts = <<>> THEN <<>>
    ELSE texts[1] \o sep \o TerminatedBy(Tail(texts), sep)

\* the document text the context was seeded with
SeededText == SubSeq(chat.history[1].text, Len(PromptPrefix) + 1, Len(chat.history[1].text))

Blank(text) == \A i \in 1..Len(text) : text[i] \in {" ", "\t", "\n"}

\* ---------------------------------------------------------------- claims

\* C1: once every ingestion has settled and the last accepted upload's has
\* succeeded, the session is the one that upload produced: its name, its
\* context and, when nothing was sent, its transcript.  An earlier upload that
\* completes late installs nothing.
C1_LastUploadWins ==
    (curGen >= 1 /\ AllSettled /\ Installed(curGen)) =>
        LET job == ingestions[curGen] IN
        /\ pdfName = job.file.name
        /\ chat = CreateChat(curGen, ExtractLoop(job.file.pages, 1, <<>>))
        /\ streams = <<>> => messages = <<ChatMessage(BOT, initialBotMessage)>>

\* C2: a failed ingestion of the current upload is reported: the error is set,
\* processing is over, and neither document nor context is present.
C2_FailedIngestionReported ==
    (curGen >= 1 /\ \A g \in 1..curGen : ingestions[g].stage = "failed") =>
        /\ error # Null
        /\ ~isProcessing
        /\ pdfName = Null
        /\ chat = NoChat

\* C3: processing and replying are never both true.
C3_ProcessingExcludesReplying == ~(isProcessing /\ isBotReplying)

\* C3 witness: an upload was accepted while a reply was in flight, the
\* abandoned reply then wrote to the new transcript and has ended, and the
\* new ingestion is still processing.
C3_StaleReplyEndedWhileProcessing ==
    /\ isProcessing
    /\ messages # <<>>
    /\ streams # <<>>
    /\ \A s \in 1..Len(streams) : ~InFlight(s)

\* C4: the context is present exactly when the current document's ingestion
\* has succeeded, and it is that document's context.
C4_ContextIffCurrentIngested ==
    /\ (chat # NoChat) <=> (curGen >= 1 /\ pdfName # Null /\ Installed(curGen))
    /\ chat # NoChat => chat.gen = curGen

\* C5: an upload of no file or of a file that is not a PDF changes nothing but
\* the error field, which becomes the invalid-file message.
C5_RejectedUploadOnlySetsError ==
    [][\A file \in Files :
         ((file = NoFile \/ file.type # PdfType) /\ Upload(file)) =>
             /\ error' = InvalidFileMsg
             /\ UNCHANGED <<pdfName, chat, messages, isProcessing, isBotReplying,
                            userInput, ingestions, streams>>]_vars

\* C5 witness: the invalid-file message is shown while a reply is streaming
\* into the transcript of a ready session.
C5_RejectedWhileReplying ==
    /\ error = InvalidFileMsg
    /\ isBotReplying
    /\ chat # NoChat
    /\ messages # <<>>

\* C6: a send with no context, or while replying, or with empty or
\* whitespace-only input changes nothing and starts no request.
C6_RefusedSendIsNoOp ==
    [][(Send /\ (chat = NoChat \/ isBotReplying \/ Blank(userInput))) =>
           UNCHANGED <<ui, ingestions, streams, crashed>>]_vars

\* C6 witness: a ready session that is not replying holds whitespace-only
\* input, so that only the trimmed-input precondition refuses the send.
C6_WhitespaceOnReadySession ==
    /\ chat # NoChat
    /\ ~isBotReplying
    /\ ~isProcessing
    /\ userInput # <<>>
    /\ Blank(userInput)

\* C7: while a reply streams, the last transcript message is the BOT message
\* holding the concatenation of the fragments received so far.
C7_LastMessageIsReplySoFar ==
    \A s \in 1..Len(streams) :
        streams[s].stage = "streaming" =>
            /\ messages # <<>>
            /\ Last(messages) = ChatMessage(BOT, SubSeq(Fragments, 1, streams[s].k))

\* C8: when a send call fails, the handled failure leaves exactly one more
\* BOT message than before the send, the failure notice, last; replying is off.
C8_FailedSendAddsOneNotice ==
    [][\A s \in 1..MaxSends :
         SendSettled(s, "throw") =>
             /\ ~isBotReplying'
             /\ Last(messages') = ChatMessage(BOT, CommFailMsg)
             /\ BotCount(messages') = streams[s].bots + 1]_vars

\* C9: a successful ingestion leaves the context present, processing off and
\* the transcript equal to the single acknowledgment message of the BOT.
C9_IngestedState ==
    [][\A g \in 1..MaxUploads :
         Extract(g, "ok") =>
             /\ chat' # NoChat
             /\ ~isProcessing'
             /\ messages' = <<[sender |-> BOT, text |-> initialBotMessage]>>]_vars

\* C9 witness: the acknowledgment is the whole transcript of a ready session
\* although a reply started before the upload is still in flight.
C9_IngestedOverStaleReply ==
    /\ chat # NoChat
    /\ ~isProcessing
    /\ messages = <<[sender |-> BOT, text |-> initialBotMessage]>>
    /\ \E s \in 1..Len(streams) : InFlight(s) /\ streams[s].chat # chat.gen

\* C10 as claimed: the seeded text is the pages' texts in ascending order with
\* a double newline between consecutive pages only.
C10_PagesJoined ==
    chat # NoChat =>
        SeededText = JoinedBy(PageTexts(ingestions[chat.gen].file), <<"\n\n">>)

\* C10 amended: the seeded text is the pages' texts in ascending order, each
\* followed by a double newline (the last page too).
C10_PagesTerminated ==
    chat # NoChat =>
        SeededText = TerminatedBy(PageTexts(ingestions[chat.gen].file), <<"\n\n">>)

\* C10 witness: a context seeded from a PDF of at least two pages.
C10_MultiPageSeeded ==
    /\ chat # NoChat
    /\ Len(ingestions[chat.gen].file.pages) >= 2

\* C11: when a reply stream throws, however many fragments it has delivered,
\* the handled failure leaves the fixed communication-failure notice as the
\* last message of the transcript, a BOT message that was appended or that
\* replaced the text of the last BOT message, and replying is false.
C11_StreamFailureNoticeLast ==
    [][\A s \in 1..MaxSends :
         StreamEnd(s, "throw") =>
             /\ Last(messages') = ChatMessage(BOT, CommFailMsg)
             /\ \/ messages' = Append(messages, ChatMessage(BOT, CommFailMsg))
                \/ /\ messages # <<>>
                   /\ Last(messages).sender = BOT
                   /\ messages' = [messages EXCEPT ![Len(messages)].text = CommFailMsg]
             /\ ~isBotReplying']_vars

\* a stream has failed after its first fragment: the partial reply stays, the
\* notice follows it
C11_FailedAfterFragment ==
    /\ \E s \in 1..Len(streams) : streams[s].stage = "failed"
    /\ Len(messages) >= 2
    /\ messages[Len(messages) - 1] = ChatMessage(BOT, <<Fragments[1]>>)
    /\ Last(messages) = ChatMessage(BOT, CommFailMsg)
    /\ ~isBotReplying

\* C12: a failed send and a failed reply stream leave the document name, the
\* conversation context, the error and the processing flag as they were, and
\* after the failure the context of the failed send is present and accepts a
\* new send: it is the current one, replying and processing are false.
C12_FailureKeepsSessionRetryable ==
    [][\A s \in 1..MaxSends :
         (SendSettled(s, "throw") \/ StreamEnd(s, "throw")) =>
             /\ UNCHANGED <<pdfName, chat, error, isProcessing>>
             /\ chat' # NoChat /\ chat'.gen = streams[s].chat
             /\ ~isBotReplying' /\ ~isProcessing']_vars

\* C13: applying a fragment of a reply to a non-empty transcript rewrites only
\* the text of the last message, and that message is the BOT placeholder
\* created for that reply, holding the reply so far: never a USER message,
\* the acknowledgment or a message that is not the last one.
C13_OnlyOwnPlaceholderRewritten ==
    [][\A s \in 1..MaxSends :
         (StreamChunk(s) /\ messages # <<>>) =>
             /\ Len(messages') = Len(messages)
             /\ \A i \in 1..(Len(messages) - 1) : messages'[i] = messages[i]
             /\ Last(messages) = ChatMessage(BOT, streams[s].botReply)
             /\ Last(messages').sender = BOT]_vars

\* the reply s was started before the last accepted upload
StartedBeforeReset(s) == streams[s].session < curGen

\* C14: a fragment, the failure and the completion of a reply that was started
\* before an upload reset the session change neither the transcript nor the
\* replying flag.
C14_StaleReplyIgnored ==
    [][\A s \in 1..MaxSends :
         (/\ \/ StreamChunk(s)
             \/ SendSettled(s, "throw")
             \/ \E o \in {"ok", "throw"} : StreamEnd(s, o)
          /\ StartedBeforeReset(s)) =>
             UNCHANGED <<messages, isBotReplying>>]_vars

\* C15: replying stays true from the acceptance of a send until its send call
\* or its reply stream completes or fails: while a reply is in flight,
\* replying is true. Stated for the replies of the current session; an upload
\* that resets the session clears the flag of the replies it abandons.
C15_ReplyingUntilSettled ==
    \A s \in 1..Len(streams) :
        (InFlight(s) /\ ~StartedBeforeReset(s)) => isBotReplying

\* C16: when the reply stream of an accepted send with input text t is open
\* and nothing it yields has been processed yet, the transcript ends with the
\* USER message of text exactly t followed by the empty BOT placeholder, the
\* input field is empty and replying is true.
C16_SendExtendsTranscript ==
    \A s \in 1..Len(streams) :
        (streams[s].stage = "streaming" /\ streams[s].k = 0) =>
            /\ Len(messages) >= 2
            /\ messages[Len(messages) - 1] = ChatMessage(USER, streams[s].message)
            /\ Last(messages) = ChatMessage(BOT, <<>>)
            /\ userInput = <<>>
            /\ isBotReplying

\* C17: the step that accepts a PDF, whatever the session was doing, ends with
\* the context absent, the transcript empty, the error absent, replying
\* false, processing true and the document name that of the new file.
C17_AcceptedUploadResets ==
    [][\A file \in Files :
         (IsPdf(file) /\ Upload(file)) =>
             /\ chat' = NoChat
             /\ messages' = <<>>
             /\ error' = Null
             /\ ~isBotReplying'
             /\ isProcessing'
             /\ pdfName' = file.name]_vars

\* the second PDF has just been accepted while the only reply, started in the
\* first session, was in flight
C17_UploadedWhileReplying ==
    /\ Len(ingestions) = 2 /\ ingestions[2].stage = "reading"
    /\ Len(streams) = 1 /\ InFlight(1) /\ streams[1].session = 1
    /\ pdfName = PdfFile(2).name
    /\ isProcessing /\ ~isBotReplying
    /\ messages = <<>> /\ chat = NoChat /\ error = Null

\* C18: while a reply started on the current conversation context is in
\* flight, replying is true, and at most one reply of that context is in
\* flight.
C18_OneReplyPerContext ==
    LET current == {s \in 1..Len(streams) : InFlight(s) /\ streams[s].chat = chat.gen} IN
    /\ current # {} => isBotReplying
    /\ Cardinality(current) <= 1

\* C19: a fragment of a reply is only ever applied to a non-empty transcript,
\* so that the updater's write to the element at index length - 1 has a
\* target and does not throw.
C19_FragmentHasTarget ==
    [][\A s \in 1..MaxSends : StreamChunk(s) => (messages # <<>> /\ ~crashed')]_vars
====
